---- MODULE Spec2Model ----
(***************************************************************************)
(* Model of create.py, the LeetCode scaffold builder: a straight-line      *)
(* script that creates a fixed tree of directories with os.makedirs(...,   *)
(* exist_ok=True) and writes placeholder files with open(..., 'w').        *)
(*                                                                         *)
(* The filesystem is the state.  A path is the sequence of its components  *)
(* (<<>> is "/"), a text is the sequence of the pieces that str.split("\n")*)
(* would give (so <<"">> is the empty file and <<"a", "b", "">> holds the   *)
(* two lines a and b, each ended by a newline).  One run of the script is  *)
(* a walk of pc over Steps, one filesystem call per step; an uncaught      *)
(* exception ends the run.  Between runs the user may edit files, and the  *)
(* environment may make a call fail (permission denied, disk full).        *)
(***************************************************************************)
EXTENDS Naturals, Sequences, FiniteSets, TLC

VARIABLES dirs, files, pc, status, err, out, log, runs, faults, userOps,
          baseFs, origFs, prevStatus, doneDirs, edited

vars == <<dirs, files, pc, status, err, out, log, runs, faults, userOps,
          baseFs, origFs, prevStatus, doneDirs, edited>>

\* Bounds of the model: runs of the script, failures the environment injects,
\* and edits the user makes between runs.
MaxRuns == 2
MaxFaults == 1
MaxUserOps == 1

(***************************************************************************)
(* Paths and texts                                                         *)
(***************************************************************************)
Join(p, name) == Append(p, name)

Parent(p) == SubSeq(p, 1, Len(p) - 1)

IsPrefix(p, q) == Len(p) <= Len(q) /\ SubSeq(q, 1, Len(p)) = p

Prefixes(p) == {SubSeq(p, 1, k) : k \in 0..Len(p)}

RECURSIVE PathStr(_)
PathStr(p) == IF p = <<>> THEN "" ELSE PathStr(Parent(p)) \o "/" \o p[Len(p)]

Empty == <<"">>

\* s followed by a newline
Line(s) == <<s, "">>

\* what file.write(chunk) makes of the text written so far
WriteChunk(text, chunk) ==
    SubSeq(text, 1, Len(text) - 1) \o <<text[Len(text)] \o chunk[1]>> \o Tail(chunk)

RECURSIVE WriteAll(_, _, _)
WriteAll(text, chunks, n) ==
    IF n = 0 THEN text ELSE WriteChunk(WriteAll(text, chunks, n - 1), chunks[n])

(***************************************************************************)
(* The script's literals                                                   *)
(***************************************************************************)
desktop_path == <<"Users", "msnabiel", "Desktop">>

root_dir == Join(desktop_path, "LeetCode")

topics ==
    <<"Arrays", "Strings", "Dynamic_Programming", "Backtracking", "Bit_Manipulation",
      "Greedy", "Graphs", "Trees", "Math", "Hash_Table", "Sorting", "Searching",
      "Two_Pointers", "Sliding_Window", "Union_Find", "Heap", "Stack", "Queue",
      "Recursion", "Binary_Search", "Trie", "Divide_and_Conquer", "Monotonic_Stack">>

utilities == <<"readme_generator.py", "leetcode_template.py">>

\* the difficulty list without its last entry
difficulty_folders_short == <<"Easy", "Medium">>

difficulty_folders == <<"Easy", "Medium", "Hard">>

topics_folder == Join(root_dir, "Topics")

\* the Utilities directory under a different name
utilities_folder_misnamed == Join(root_dir, "Utils")

utilities_folder == Join(root_dir, "Utilities")

readme_file_path == Join(root_dir, "README.md")

TopicFilePath(topic) == Join(Join(topics_folder, topic), topic \o "_example.txt")

\* the difficulty files' wording written into a topic file
TopicWritesAsLevel(topic) ==
    << Line("# Dummy file for " \o topic \o " level"),
       Line("# Add your " \o topic \o " level code solutions here.") >>

TopicWrites(topic) ==
    << Line("# Dummy file for " \o topic \o " topic"),
       Line("# Add your code solutions for " \o topic \o " here.") >>

DifficultyFilePath(difficulty) ==
    Join(Join(root_dir, difficulty), difficulty \o "_example.txt")

DifficultyWrites(difficulty) ==
    << Line("# Dummy file for " \o difficulty \o " level"),
       Line("# Add your " \o difficulty \o " level code solutions here.") >>

UtilityWrites(utility) ==
    << Line("# This is a placeholder for the script"),
       Line("# " \o utility \o " - Add your utility code here.") >>

\* The grave accent (U+0060) that Markdown puts around code cannot be written in
\* a string of this language; GraveAccent stands for that one character.
GraveAccent == "{U+0060}"

Code(s) == GraveAccent \o s \o GraveAccent

ReadmeWrites ==
    << Line("# LeetCode Project"),
       Line("This is a project for LeetCode problems categorized by difficulty and topic."),
       <<"", "## Folders and Files", "">>,
       Line("The project contains the following folders:"),
       Line("- " \o Code("Easy") \o ", " \o Code("Medium") \o ", " \o Code("Hard")
                 \o " - Difficulty folders"),
       Line("- " \o Code("Topics") \o " - Folder containing various topics with solutions."),
       Line("- " \o Code("Utilities") \o " - Utility scripts for various purposes.") >>

CompletionMessage ==
    "Project structure with dummy files created at: " \o PathStr(root_dir)

(***************************************************************************)
(* The script as its sequence of filesystem calls                          *)
(***************************************************************************)
MkStep(p) == [op |-> "makedirs", path |-> p, writes |-> <<>>]

WrStep(p, w) == [op |-> "write", path |-> p, writes |-> w]

PrintStep == [op |-> "print", path |-> root_dir, writes |-> <<>>]

RECURSIVE TopicsLoop(_)
TopicsLoop(n) ==
    IF n = 0 THEN <<>>
    ELSE TopicsLoop(n - 1) \o
         << MkStep(Join(topics_folder, topics[n])),
            WrStep(TopicFilePath(topics[n]), TopicWrites(topics[n])) >>

DifficultyLoop ==
    [i \in 1..Len(difficulty_folders) |->
        WrStep(DifficultyFilePath(difficulty_folders[i]),
               DifficultyWrites(difficulty_folders[i]))]

UtilitiesLoop ==
    [i \in 1..Len(utilities) |->
        WrStep(Join(utilities_folder, utilities[i]), UtilityWrites(utilities[i]))]

\* the difficulty files written before the topics loop, the message printed
\* before the README is written
StepsReordered ==
    << MkStep(root_dir),
       MkStep(Join(root_dir, "Easy")),
       MkStep(Join(root_dir, "Medium")),
       MkStep(Join(root_dir, "Hard")),
       MkStep(topics_folder) >>
    \o DifficultyLoop
    \o TopicsLoop(Len(topics))
    \o << MkStep(utilities_folder) >>
    \o UtilitiesLoop
    \o << WrStep(readme_file_path, ReadmeWrites), PrintStep >>

\* the script without the makedirs of Easy, Medium and Hard
StepsNoDifficultyDirs ==
    << MkStep(root_dir),
       MkStep(topics_folder) >>
    \o TopicsLoop(Len(topics))
    \o DifficultyLoop
    \o << MkStep(utilities_folder) >>
    \o UtilitiesLoop
    \o << WrStep(readme_file_path, ReadmeWrites), PrintStep >>

Steps ==
    << MkStep(root_dir),
       MkStep(Join(root_dir, "Easy")),
       MkStep(Join(root_dir, "Medium")),
       MkStep(Join(root_dir, "Hard")),
       MkStep(topics_folder) >>
    \o TopicsLoop(Len(topics))
    \o DifficultyLoop
    \o << MkStep(utilities_folder) >>
    \o UtilitiesLoop
    \o << WrStep(readme_file_path, ReadmeWrites), PrintStep >>

NSteps == Len(Steps)

(***************************************************************************)
(* The filesystem calls                                                    *)
(***************************************************************************)
Exists(d, f, p) == p \in d \/ p \in DOMAIN f

Put(f, p, text) == [q \in (DOMAIN f) \cup {p} |-> IF q = p THEN text ELSE f[q]]

\* an except clause that removes the tree under the root before re-raising
RaiseRollback(d, f, e) ==
    [dirs  |-> {q \in d : ~IsPrefix(root_dir, q)},
     files |-> [q \in {x \in DOMAIN f : ~IsPrefix(root_dir, x)} |-> f[q]],
     err   |-> e]

\* An exception nothing catches: the call returns nothing and undoes nothing.
Raise(d, f, e) == [dirs |-> d, files |-> f, err |-> e]

Ok(d, f) == [dirs |-> d, files |-> f, err |-> "none"]

\* os.mkdir(name)
Mkdir(d, f, name) ==
    IF Parent(name) \in DOMAIN f THEN Raise(d, f, "NotADirectoryError")
    ELSE IF Parent(name) \notin d THEN Raise(d, f, "FileNotFoundError")
    ELSE IF Exists(d, f, name) THEN Raise(d, f, "FileExistsError")
    ELSE Ok(d \cup {name}, f)

\* os.makedirs(name) without exist_ok: an existing leaf is an error
RECURSIVE MakeDirsStrict(_, _, _)
MakeDirsStrict(d, f, name) ==
    LET head == Parent(name)
        up   == IF Len(name) > 1 /\ ~Exists(d, f, head)
                THEN MakeDirsStrict(d, f, head)
                ELSE Ok(d, f)
    IN  IF up.err # "none" THEN up ELSE Mkdir(up.dirs, up.files, name)

\* an existing leaf is emptied (rmtree) and made again
RECURSIVE MakeDirsClean(_, _, _)
MakeDirsClean(d, f, name) ==
    LET head == Parent(name)
        up   == IF Len(name) > 1 /\ ~Exists(d, f, head)
                THEN MakeDirsClean(d, f, head)
                ELSE Ok(d, f)
        leaf == Mkdir(up.dirs, up.files, name)
    IN  IF up.err # "none" THEN up
        ELSE IF leaf.err = "FileExistsError" /\ name \in up.dirs
             THEN Ok({q \in up.dirs : q = name \/ ~IsPrefix(name, q)},
                     [q \in {x \in DOMAIN up.files : ~IsPrefix(name, x)} |-> up.files[q]])
        ELSE leaf

\* os.makedirs(name, exist_ok=True): the missing ancestors first, then the
\* leaf, whose FileExistsError is swallowed when the leaf is a directory.
RECURSIVE MakeDirs(_, _, _)
MakeDirs(d, f, name) ==
    LET head == Parent(name)
        up   == IF Len(name) > 1 /\ ~Exists(d, f, head)
                THEN MakeDirs(d, f, head)
                ELSE Ok(d, f)
        leaf == Mkdir(up.dirs, up.files, name)
    IN  IF up.err # "none" THEN up
        ELSE IF leaf.err = "FileExistsError" /\ name \in up.dirs THEN up
        ELSE leaf

\* open(path, 'a'): an existing file keeps its text
OpenAppend(d, f, path) ==
    IF path \in d THEN Raise(d, f, "IsADirectoryError")
    ELSE IF Parent(path) \in DOMAIN f THEN Raise(d, f, "NotADirectoryError")
    ELSE IF Parent(path) \notin d THEN Raise(d, f, "FileNotFoundError")
    ELSE Ok(d, IF path \in DOMAIN f THEN f ELSE Put(f, path, Empty))

\* open(path, 'x'): an existing file is an error
OpenExclusive(d, f, path) ==
    IF path \in d \/ path \in DOMAIN f THEN Raise(d, f, "FileExistsError")
    ELSE IF Parent(path) \in DOMAIN f THEN Raise(d, f, "NotADirectoryError")
    ELSE IF Parent(path) \notin d THEN Raise(d, f, "FileNotFoundError")
    ELSE Ok(d, Put(f, path, Empty))

\* open(path, 'w'): creates the file or truncates it
OpenW(d, f, path) ==
    IF path \in d THEN Raise(d, f, "IsADirectoryError")
    ELSE IF Parent(path) \in DOMAIN f THEN Raise(d, f, "NotADirectoryError")
    ELSE IF Parent(path) \notin d THEN Raise(d, f, "FileNotFoundError")
    ELSE Ok(d, Put(f, path, Empty))

\* with open(path, 'w') as file: file.write(...) ...
WriteFile(d, f, path, writes) ==
    LET o == OpenW(d, f, path)
    IN  IF o.err # "none" THEN o
        ELSE Ok(o.dirs, Put(o.files, path, WriteAll(o.files[path], writes, Len(writes))))

StepEffect(d, f, step) ==
    CASE step.op = "makedirs" -> MakeDirs(d, f, step.path)
      [] step.op = "write"    -> WriteFile(d, f, step.path, step.writes)
      [] OTHER                -> Ok(d, f)

\* The whole script from step i on, with no failure from outside: the
\* filesystem it leaves and the exception that ended it, if any.
RECURSIVE RunFrom(_, _, _)
RunFrom(d, f, i) ==
    IF i > NSteps THEN Ok(d, f)
    ELSE LET r == StepEffect(d, f, Steps[i])
         IN  IF r.err # "none" THEN r ELSE RunFrom(r.dirs, r.files, i + 1)

Injected == {"PermissionError", "OSError"}

(***************************************************************************)
(* Initial filesystems: "/" alone or with some of the root's ancestors, a  *)
(* file in the way of the root or of one of its ancestors, or an existing  *)
(* root holding one entry left by the user or by an earlier run.           *)
(***************************************************************************)
UserText == <<"class Solution:", "    pass", "">>

UserSolutionPaths ==
    { Join(Join(topics_folder, "Arrays"), "solution.py"),
      Join(Join(root_dir, "Easy"), "solution.py") }

Fs(d, f) == [dirs |-> d, files |-> f]

NoFiles == [p \in {} |-> Empty]

ChainFs == { Fs({q \in Prefixes(root_dir) : Len(q) <= k}, NoFiles) : k \in 0..Len(root_dir) }

BlockedFs ==
    { Fs({q \in Prefixes(root_dir) : Len(q) < k},
         Put(NoFiles, SubSeq(root_dir, 1, k), UserText)) : k \in 1..Len(root_dir) }

FileInTheWay ==
    { Join(root_dir, "Easy"), topics_folder, Join(topics_folder, "Arrays"),
      utilities_folder }

DirInTheWay ==
    { TopicFilePath("Arrays"), DifficultyFilePath("Hard"),
      Join(utilities_folder, "leetcode_template.py"), readme_file_path }

OldFiles == UserSolutionPaths \cup {TopicFilePath("Arrays"), readme_file_path}

EntryFs ==
    { Fs(Prefixes(Parent(p)), Put(NoFiles, p, UserText)) : p \in FileInTheWay \cup OldFiles }
    \cup { Fs(Prefixes(p), NoFiles) : p \in DirInTheWay \cup {Join(root_dir, "Notes")} }

InitialFs == ChainFs \cup BlockedFs \cup EntryFs

Init ==
    /\ \E fs \in InitialFs : dirs = fs.dirs /\ files = fs.files /\ baseFs = fs /\ origFs = fs
    /\ pc = 1
    /\ status = "idle"
    /\ err = "none"
    /\ out = <<>>
    /\ log = <<>>
    /\ runs = 0
    /\ faults = 0
    /\ userOps = 0
    /\ prevStatus = "idle"
    /\ doneDirs = {}
    /\ edited = {}

(***************************************************************************)
(* A run of the script                                                     *)
(***************************************************************************)
\* python create.py
StartRun ==
    /\ status # "running"
    /\ runs < MaxRuns
    /\ runs' = runs + 1
    /\ status' = "running"
    /\ pc' = 1
    /\ err' = "none"
    /\ out' = <<>>
    /\ log' = <<>>
    /\ prevStatus' = status
    /\ baseFs' = IF status = "aborted" THEN baseFs ELSE Fs(dirs, files)
    /\ doneDirs' = IF status = "done" THEN dirs ELSE {}
    /\ edited' = IF status = "idle" THEN edited ELSE {}
    /\ UNCHANGED <<dirs, files, faults, userOps, origFs>>

\* One call of the script returns, or raises and ends the run.
Advance(r) ==
    /\ dirs' = r.dirs
    /\ files' = r.files
    /\ IF r.err = "none"
       THEN /\ pc' = pc + 1
            /\ log' = Append(log, [op |-> Steps[pc].op, path |-> Steps[pc].path])
            /\ UNCHANGED <<status, err>>
       ELSE /\ status' = "aborted"
            /\ err' = r.err
            /\ UNCHANGED <<pc, log>>
    /\ UNCHANGED <<out, runs, faults, userOps, baseFs, origFs, prevStatus, doneDirs,
                   edited>>

MakeDirsStep ==
    /\ status = "running"
    /\ Steps[pc].op = "makedirs"
    /\ Advance(StepEffect(dirs, files, Steps[pc]))

WriteFileStep ==
    /\ status = "running"
    /\ Steps[pc].op = "write"
    /\ Advance(StepEffect(dirs, files, Steps[pc]))

\* print(...) and the end of the script
PrintDone ==
    /\ status = "running"
    /\ Steps[pc].op = "print"
    /\ out' = Append(out, CompletionMessage)
    /\ log' = Append(log, [op |-> "print", path |-> Steps[pc].path])
    /\ pc' = pc + 1
    /\ status' = "done"
    /\ UNCHANGED <<dirs, files, err, runs, faults, userOps, baseFs, origFs,
                   prevStatus, doneDirs, edited>>

(***************************************************************************)
(* The environment: a call that fails for a reason outside the tree, and   *)
(* the user's edits between runs                                           *)
(***************************************************************************)
Abort(d, f, e) ==
    /\ LET r == Raise(d, f, e)
       IN  dirs' = r.dirs /\ files' = r.files /\ err' = r.err
    /\ status' = "aborted"
    /\ faults' = faults + 1
    /\ UNCHANGED <<pc, out, log, runs, userOps, baseFs, origFs, prevStatus, doneDirs,
                   edited>>

\* os.makedirs fails for a reason outside the tree.  Without search permission
\* on an ancestor mkdir is refused (EACCES) whatever the target is, an existing
\* directory included: os.path.isdir then answers False and exist_ok does not
\* swallow the error.  Where the target is to be made, mkdir may also fail
\* for space (ENOSPC), and either failure may come after some of the missing
\* ancestors were made.
FaultMkdir ==
    /\ status = "running"
    /\ faults < MaxFaults
    /\ Steps[pc].op = "makedirs"
    /\ LET path == Steps[pc].path
       IN  IF Exists(dirs, files, path) \/ Prefixes(path) \cap DOMAIN files # {}
           THEN Abort(dirs, files, "PermissionError")
           ELSE \E k \in 0..(Len(path) - 1), e \in Injected :
                   Abort(dirs \cup {q \in Prefixes(path) : Len(q) <= k}, files, e)

\* open fails for a reason outside the tree and nothing is touched: refused
\* (EACCES) whatever is at the path, or, where the path is not a directory,
\* no space for a new file (ENOSPC) or a read-only filesystem (EROFS)
FaultOpen ==
    /\ status = "running"
    /\ faults < MaxFaults
    /\ Steps[pc].op = "write"
    /\ \E e \in (IF Steps[pc].path \in dirs THEN {"PermissionError"} ELSE Injected) :
          Abort(dirs, files, e)

\* the disk is full when the buffered text is flushed at close: the file
\* was created or truncated by open and stays empty
FaultFlush ==
    /\ status = "running"
    /\ faults < MaxFaults
    /\ Steps[pc].op = "write"
    /\ LET o == OpenW(dirs, files, Steps[pc].path)
       IN  o.err = "none" /\ Abort(o.dirs, o.files, "OSError")

UserEditable ==
    UserSolutionPaths \cup
    { TopicFilePath("Arrays"), DifficultyFilePath("Easy"),
      Join(utilities_folder, "readme_generator.py"), readme_file_path }

\* the texts a user may leave in a file: nothing, their own, or a line added
UserTexts(p) ==
    {Empty, UserText} \cup
    (IF p \in DOMAIN files THEN {WriteChunk(files[p], Line("# my notes"))} ELSE {})

\* the user changes a file of a tree the script has built
UserEdit ==
    /\ status = "done"
    /\ userOps < MaxUserOps
    /\ \E p \in UserEditable :
          /\ Parent(p) \in dirs
          /\ p \notin dirs
          /\ \E text \in UserTexts(p) :
                /\ p \in DOMAIN files => files[p] # text
                /\ files' = Put(files, p, text)
                /\ origFs' = Fs(dirs, Put(files, p, text))
          /\ edited' = edited \cup {p}
    /\ status' = "idle"
    /\ userOps' = userOps + 1
    /\ UNCHANGED <<dirs, pc, err, out, log, runs, faults, baseFs, prevStatus, doneDirs>>

Next ==
    \/ StartRun
    \/ MakeDirsStep
    \/ WriteFileStep
    \/ PrintDone
    \/ FaultMkdir
    \/ FaultOpen
    \/ FaultFlush
    \/ UserEdit

Spec == Init /\ [][Next]_vars

(***************************************************************************)
(* The scaffold as the specification lays it out                           *)
(***************************************************************************)
DifficultyNames == {"Easy", "Medium", "Hard"}

TopicNames == {topics[i] : i \in 1..Len(topics)}

UtilityNames == {"readme_generator.py", "leetcode_template.py"}

TopLevelDirs ==
    {root_dir} \cup {Join(root_dir, n) : n \in DifficultyNames \cup {"Topics", "Utilities"}}

TopicDir(t) == Join(Join(root_dir, "Topics"), t)

TopicFile(t) == Join(TopicDir(t), t \o "_example.txt")

ScaffoldDirs == TopLevelDirs \cup {TopicDir(t) : t \in TopicNames}

DeclaredFiles ==
    {TopicFile(t) : t \in TopicNames}
    \cup {Join(Join(root_dir, d), d \o "_example.txt") : d \in DifficultyNames}
    \cup {Join(Join(root_dir, "Utilities"), u) : u \in UtilityNames}
    \cup {Join(root_dir, "README.md")}

\* what a build on an empty disk leaves
FreshBuild == RunFrom({<<>>}, NoFiles, 1)

\* what a single run that never fails leaves of the tree the run began on
Unfailed == RunFrom(baseFs.dirs, baseFs.files, 1)

RECURSIVE TopicOrder(_)
TopicOrder(n) ==
    IF n = 0 THEN <<>>
    ELSE TopicOrder(n - 1) \o
         << [op |-> "makedirs", path |-> TopicDir(topics[n])],
            [op |-> "write", path |-> TopicFile(topics[n])] >>

Section4Order ==
    << [op |-> "makedirs", path |-> root_dir],
       [op |-> "makedirs", path |-> Join(root_dir, "Easy")],
       [op |-> "makedirs", path |-> Join(root_dir, "Medium")],
       [op |-> "makedirs", path |-> Join(root_dir, "Hard")],
       [op |-> "makedirs", path |-> Join(root_dir, "Topics")] >>
    \o TopicOrder(Len(topics))
    \o << [op |-> "write", path |-> Join(Join(root_dir, "Easy"), "Easy_example.txt")],
          [op |-> "write", path |-> Join(Join(root_dir, "Medium"), "Medium_example.txt")],
          [op |-> "write", path |-> Join(Join(root_dir, "Hard"), "Hard_example.txt")],
          [op |-> "makedirs", path |-> Join(root_dir, "Utilities")],
          [op |-> "write", path |-> Join(Join(root_dir, "Utilities"), "readme_generator.py")],
          [op |-> "write", path |-> Join(Join(root_dir, "Utilities"), "leetcode_template.py")],
          [op |-> "write", path |-> Join(root_dir, "README.md")],
          [op |-> "print", path |-> root_dir] >>

(***************************************************************************)
(* The claims                                                              *)
(***************************************************************************)

\* C1: after a run that met no filesystem failure, whatever the disk held
\* before, root, root/Easy, root/Medium, root/Hard, root/Topics and
\* root/Utilities all exist and are directories.
C1_TopLevelDirsExist ==
    status = "done" => \A p \in TopLevelDirs : p \in dirs /\ p \notin DOMAIN files

\* a run completed on a disk that did not hold the root
C1_Witness == status = "done" /\ root_dir \notin baseFs.dirs

\* C2: after a successful run, for every topic t of the list, root/Topics/t is
\* a directory and root/Topics/t/{t}_example.txt holds exactly the two lines
\* "# Dummy file for {t} topic" and "# Add your code solutions for {t} here.",
\* each ended by a newline, and nothing else.
C2_TopicFilesExact ==
    status = "done" =>
        \A t \in TopicNames :
            /\ TopicDir(t) \in dirs
            /\ TopicFile(t) \in DOMAIN files
            /\ files[TopicFile(t)] =
                 << "# Dummy file for " \o t \o " topic",
                    "# Add your code solutions for " \o t \o " here.",
                    "" >>

\* a run completed on a tree whose Arrays example file held another text
C2_Witness ==
    /\ status = "done"
    /\ TopicFile("Arrays") \in DOMAIN origFs.files
    /\ origFs.files[TopicFile("Arrays")] = UserText
    /\ Cardinality(TopicNames) = 23

\* C3: after a successful run every declared file exists and is not empty:
\* the 23 topic files, the three difficulty files, the two utility files and
\* root/README.md.
C3_DeclaredFilesNonEmpty ==
    status = "done" =>
        \A p \in DeclaredFiles : p \in DOMAIN files /\ files[p] # Empty

\* a first run completed, on a disk that held none of the 29 declared files
C3_Witness ==
    /\ status = "done"
    /\ runs = 1
    /\ DOMAIN baseFs.files = {}
    /\ Cardinality(DeclaredFiles) = 29

\* C4: a generated file whose text the user changed after a successful run
\* holds, after the next successful run, exactly the text a fresh build gives
\* it: the edit is replaced, not kept and not appended to.
C4_RerunRestoresTemplate ==
    status = "done" =>
        \A p \in edited \cap DeclaredFiles :
            p \in DOMAIN files /\ files[p] = FreshBuild.files[p]

\* a run completed after the user changed a generated file of a built tree, and
\* the text the user left was not the template
C4_Witness ==
    /\ status = "done"
    /\ runs = 2
    /\ \E p \in edited \cap DeclaredFiles : origFs.files[p] # FreshBuild.files[p]

\* C5: a run that follows a successful run, with nothing changed in between,
\* fails only if the environment makes a call fail, and when it completes the
\* set of directories is the one the first run left; a makedirs step whose
\* target is already a directory changes nothing and fails only if the
\* environment refuses the call.
C5_DirectoriesIdempotent ==
    /\ (status = "done" /\ prevStatus = "done") => dirs = doneDirs
    /\ (status = "aborted" /\ prevStatus = "done") => err \in Injected
    /\ (status = "running" /\ Steps[pc].op = "makedirs" /\ Steps[pc].path \in dirs) =>
          StepEffect(dirs, files, Steps[pc]) = Ok(dirs, files)
    /\ (status = "aborted" /\ Steps[pc].op = "makedirs" /\ Steps[pc].path \in dirs) =>
          err \in Injected

\* two runs in succession both completed
C5_Witness ==
    /\ status = "done"
    /\ prevStatus = "done"
    /\ runs = 2
    /\ ScaffoldDirs \subseteq doneDirs

\* C6: when a step fails the run ends there with the error (no later step
\* runs, nothing is printed), and every directory made and every file written
\* by the earlier steps of the run is in place as those steps left it.
C6_AbortKeepsEarlierWork ==
    status = "aborted" =>
        /\ err # "none"
        /\ out = <<>>
        /\ pc <= NSteps
        /\ Len(log) = pc - 1
        /\ \A i \in 1..(pc - 1) :
              /\ log[i] = [op |-> Steps[i].op, path |-> Steps[i].path]
              /\ Steps[i].op = "makedirs" => Steps[i].path \in dirs
              /\ Steps[i].op = "write" =>
                    /\ Steps[i].path \in DOMAIN files
                    /\ files[Steps[i].path] =
                         WriteAll(Empty, Steps[i].writes, Len(Steps[i].writes))

\* a run stopped by an entry of the wrong type after it had written files
C6_Witness ==
    /\ status = "aborted"
    /\ err \in {"FileExistsError", "IsADirectoryError"}
    /\ \E i \in 1..(pc - 1) : Steps[i].op = "write"

\* C7 as first stated: the run that follows an aborted run completes (unless
\* the environment makes one of its calls fail) and leaves what a single
\* unfailed run would have left.
C7_ResumeAlwaysCompletes ==
    prevStatus = "aborted" =>
        /\ status = "aborted" => err \in Injected
        /\ status = "done" => Fs(dirs, files) = Fs(Unfailed.dirs, Unfailed.files)

\* C7, amended: when the tree the aborted run began on holds no entry of the
\* wrong type at a scaffold path (a single run can complete on it), the run
\* that follows the aborted run fails only if the environment makes a call
\* fail, and when it completes it leaves exactly the directories and files a
\* single unfailed run would have left.
C7_ResumeCompletesOnCleanTree ==
    (/\ prevStatus = "aborted"
     /\ \/ status = "done"
        \/ status = "aborted" /\ err \notin Injected) =>
        LET u == Unfailed
        IN  u.err = "none" => status = "done" /\ Fs(dirs, files) = Fs(u.dirs, u.files)

\* a run completed right after a run that the environment stopped midway
C7_Witness ==
    /\ status = "done"
    /\ prevStatus = "aborted"
    /\ faults = 1
    /\ Unfailed.err = "none"

\* C8: the steps run in the order of section 4, and the completion message,
\* which carries the absolute root path, is printed last: only when every
\* directory creation and file write of the run has succeeded, never in a run
\* that aborted.
C8_OrderAndMessageLast ==
    /\ Len(log) <= Len(Section4Order)
    /\ log = SubSeq(Section4Order, 1, Len(log))
    /\ status \in {"running", "aborted"} => out = <<>>
    /\ out # <<>> =>
          /\ out = <<"Project structure with dummy files created at: /Users/msnabiel/Desktop/LeetCode">>
          /\ log = Section4Order

\* a run printed the message
C8_Witness == status = "done" /\ out # <<>> /\ Len(log) = 59

\* C9: every write finds its parent directory in place, made or found by a
\* makedirs step earlier in the same run, so that no write fails for a missing
\* parent: the difficulty files rely on the makedirs before the topics loop,
\* README.md on the makedirs of the root.
C9_ParentEnsuredBeforeWrite ==
    /\ err # "FileNotFoundError"
    /\ (status = "running" /\ Steps[pc].op = "write") =>
          /\ Parent(Steps[pc].path) \in dirs
          /\ \E j \in 1..Len(log) :
                log[j] = [op |-> "makedirs", path |-> Parent(Steps[pc].path)]

\* a run that began on an empty disk is about to write Hard/Hard_example.txt
C9_Witness ==
    /\ status = "running"
    /\ baseFs.dirs = {<<>>}
    /\ Steps[pc].op = "write"
    /\ Steps[pc].path = Join(Join(root_dir, "Hard"), "Hard_example.txt")

\* C10: no run deletes anything, and a run changes nothing but the scaffold:
\* every directory stays, every file stays a file, a file that is not a
\* declared placeholder keeps its text, and the only entries a run adds are
\* scaffold directories, the root's missing ancestors and declared files.
C10_Frame ==
    /\ origFs.dirs \subseteq dirs
    /\ \A p \in DOMAIN origFs.files :
          /\ p \in DOMAIN files
          /\ p \notin DeclaredFiles => files[p] = origFs.files[p]
    /\ \A p \in dirs \ origFs.dirs : p \in ScaffoldDirs \cup Prefixes(root_dir)
    /\ \A p \in (DOMAIN files) \ (DOMAIN origFs.files) : p \in DeclaredFiles

\* a second run completed on a tree that holds a user's solution file
C10_Witness ==
    /\ status = "done"
    /\ runs = 2
    /\ \E p \in UserSolutionPaths : p \in DOMAIN files /\ files[p] = UserText
====
